---- MODULE Spec2Model ----
(***************************************************************************)
(* The plugin orchestration core of DStone (src/src/dstone.py): discovery, *)
(* registration, dependency-first loading and priority/dependency ordered  *)
(* execution of plugins, with the exception each operation ends in.        *)
(*                                                                         *)
(* Every public method is one action that models the whole call.  The      *)
(* recursive methods are RECURSIVE operators that thread the mutable state *)
(* (the registry, the executed set, the call log) through the recursion.   *)
(*                                                                         *)
(* The entry point src/main.py is one action of the same state machine.    *)
(* The logging helpers (src/src/api/utils/logging.py) and the conversion   *)
(* functions of src/src/api/utils/bytes.py are state machines of their     *)
(* own, SpecLogging and SpecBytes, over the same variables.  SpecRegistered *)
(* follows load_plugin and execute_plugins on registries with deeper       *)
(* dependency graphs than Spec builds call by call.                        *)
(***************************************************************************)
EXTENDS Naturals, Integers, Sequences, FiniteSets, TLC

VARIABLES
    plugins,    \* self.plugins: the registry, a dict in insertion order
    stage,      \* "constructing" (inside __init__, registry empty) or "ready"
    op,         \* the last call made on the orchestrator and its argument
    raised,     \* the exception that call ended in, NoError when it returned
    calls,      \* names whose execute() that call invoked, in invocation order
    executed,   \* the local set `executed` of execute_plugins when it ended
    reached,    \* each plugin that call found not executed, with `executed` then
    listed,     \* what list_directories returned to the last discover_plugins
    checked,    \* subdirectories that discover_plugins examined, in order
    server,     \* whether app.run_server has been reached
    process,    \* the interpreter process of main.py: exit status, what was logged
    loggers,    \* logging: level and attached handlers of each logger
    result      \* the value the last call of a utility function returned

vars == <<plugins, stage, op, raised, calls, executed, reached, listed, checked, server,
          process, loggers, result>>

-----------------------------------------------------------------------------
(* Bounds and input domains *)

\* Most dependency entries declared by the plugins of one registry together.
MaxDepTotal == 2

\* Longest dependency list of one plugin class.
MaxDeps == MaxDepTotal

\* Most dependency entries declared by the plugins of one plugin root together.
MaxListedDeps == 1

\* Subdirectory names under the plugin root, in the order used for listings.
DirPool == <<"x", "y", "z">>

DirIdx == DOMAIN DirPool

\* Priority values plugin classes declare.
Priorities == {0, 1, 5}

NoName == ""

-----------------------------------------------------------------------------
(* Names *)

ModuleName(dirname) == "src.plugins." \o dirname

\* Names used as registry keys and as dependency names.
Names == {ModuleName(DirPool[i]) : i \in DirIdx}

PoolIndex(name) == CHOOSE i \in DirIdx : ModuleName(DirPool[i]) = name

\* The interpreter's recursion limit.  Any value above the longest chain of an
\* acyclic registry gives the same outcomes.
RecursionLimit == Cardinality(Names) + 2

-----------------------------------------------------------------------------
(* Exceptions *)

Exc(type, plugin, dependency, message) ==
    [type |-> type, plugin |-> plugin, dependency |-> dependency, message |-> message]

NoError == Exc("none", NoName, NoName, "")

TypeError(message) == Exc("TypeError", NoName, NoName, message)

\* DependencyError.__init__(self, plugin, dependency, message): a call with
\* another number of positional arguments raises TypeError instead.
DependencyError(args) ==
    IF Len(args) = 3
    THEN Exc("DependencyError", args[1], args[2], args[3])
    ELSE TypeError("DependencyError.__init__() missing required positional arguments")

ValueError(message) == Exc("ValueError", NoName, NoName, message)

KeyError(key) == Exc("KeyError", NoName, NoName, key)

RecursionError == Exc("RecursionError", NoName, NoName, "maximum recursion depth exceeded")

ImportError(module_name) == Exc("ImportError", NoName, NoName, module_name)

\* Whatever a plugin's execute() raises.
PluginFailure(name) == Exc("PluginFailure", NoName, NoName, name)

-----------------------------------------------------------------------------
(* Plugin classes and instances *)

DepLists == UNION {[1..n -> Names] : n \in 0..MaxDeps}

\* src/plugins/dummy: its constructor hands the arguments it receives on to
\* BasePlugin.__init__.
DummyPlugin == [priority |-> 0, dependencies |-> <<>>, custom_init |-> FALSE]

\* A class with DummyPlugin's constructor that declares a priority and a
\* dependency of its own as class attributes.
DeclaringPlugin ==
    [priority |-> 5, dependencies |-> <<ModuleName(DirPool[1])>>, custom_init |-> FALSE]

\* A plugin class: the priority and dependencies it declares, and whether its
\* constructor gives them to its instances itself (custom_init), whatever
\* arguments it receives.  The classes are DummyPlugin, DeclaringPlugin and the
\* classes with such a constructor.
PluginClasses ==
    {DummyPlugin, DeclaringPlugin}
    \cup [priority : Priorities, dependencies : DepLists, custom_init : {TRUE}]

\* BasePlugin.__init__: initialized keeps the dataclass default False.
BasePluginInit(name, priority, dependencies) ==
    [name |-> name, priority |-> priority, dependencies |-> dependencies,
     initialized |-> FALSE]

\* BasePlugin.create: cls(name, version, description, app, aliases, priority,
\* dependencies, sessionable).
create(cls, name, priority, dependencies) ==
    IF cls.custom_init
    THEN BasePluginInit(name, cls.priority, cls.dependencies)
    ELSE BasePluginInit(name, priority, dependencies)

-----------------------------------------------------------------------------
(* The registry: a dict, modelled as the sequence of its values in insertion *)
(* order; every value is stored under its own name.                          *)

Range(seq) == {seq[i] : i \in DOMAIN seq}

Keys(P) == {P[i].name : i \in DOMAIN P}

Index(P, name) == CHOOSE i \in DOMAIN P : P[i].name = name

Get(P, name) == P[Index(P, name)]

\* Mutation: the registry keeps the entry it has next to the new one.
DictSet_KeepOldEntry(P, instance) == Append(P, instance)

\* self.plugins[name] = instance: a new key is appended, an existing key keeps
\* its position and gets the new value.
DictSet(P, instance) ==
    IF instance.name \in Keys(P)
    THEN [P EXCEPT ![Index(P, instance.name)] = instance]
    ELSE Append(P, instance)

RECURSIVE SumLen(_)
SumLen(P) == IF P = <<>> THEN 0 ELSE Len(Head(P).dependencies) + SumLen(Tail(P))

\* register_plugin: create() is called with name, version, description and app
\* only, so priority and dependencies take create's defaults 0 and None.
RegisterPluginResult(P, plugin_name, plugin_class) ==
    DictSet(P, create(plugin_class, plugin_name, 0, <<>>))

-----------------------------------------------------------------------------
(* load_plugin and load_all_plugins *)

\* Mutation: the flag is flipped instead of set.
SetInitialized_Flip(P, name) == [P EXCEPT ![Index(P, name)].initialized = ~@]

\* Mutation: marking a plugin initialized also resets its priority.
SetInitialized_ResetPriority(P, name) ==
    [P EXCEPT ![Index(P, name)].initialized = TRUE, ![Index(P, name)].priority = 0]

\* plugin.initialized = True
SetInitialized(P, name) == [P EXCEPT ![Index(P, name)].initialized = TRUE]

Outcome(P, exc) == [plugins |-> P, raised |-> exc]

RECURSIVE load_plugin(_, _, _)
RECURSIVE LoadDependencies(_, _, _, _)

\* Mutation: a dependency that is not initialized yet is an error instead of
\* being loaded first.
LoadDependencies_NoRecursion(P, plugin_name, i, depth) ==
    LET deps == Get(P, plugin_name).dependencies IN
    IF i > Len(deps)
    THEN Outcome(P, NoError)
    ELSE LET dependency == deps[i] IN
         IF dependency \notin Keys(P) \/ ~Get(P, dependency).initialized
         THEN Outcome(P, DependencyError(
                  <<"Dependency " \o dependency \o " for plugin " \o plugin_name
                    \o " not found">>))
         ELSE LoadDependencies(P, plugin_name, i + 1, depth)

\* Mutation: a plugin's own name in its dependency list is passed over.
LoadDependencies_SkipSelf(P, plugin_name, i, depth) ==
    LET deps == Get(P, plugin_name).dependencies IN
    IF i > Len(deps)
    THEN Outcome(P, NoError)
    ELSE LET dependency == deps[i] IN
         IF dependency \notin Keys(P)
         THEN Outcome(P, DependencyError(
                  <<"Dependency " \o dependency \o " for plugin " \o plugin_name
                    \o " not found">>))
         ELSE IF dependency # plugin_name /\ ~Get(P, dependency).initialized
         THEN LET r == load_plugin(P, dependency, depth + 1) IN
              IF r.raised # NoError
              THEN r
              ELSE LoadDependencies(r.plugins, plugin_name, i + 1, depth)
         ELSE LoadDependencies(P, plugin_name, i + 1, depth)

\* Mutation: a dependency that is not initialized yet is passed over.
LoadDependencies_SkipUninitialized(P, plugin_name, i, depth) ==
    LET deps == Get(P, plugin_name).dependencies IN
    IF i > Len(deps)
    THEN Outcome(P, NoError)
    ELSE LET dependency == deps[i] IN
         IF dependency \notin Keys(P)
         THEN Outcome(P, DependencyError(
                  <<"Dependency " \o dependency \o " for plugin " \o plugin_name
                    \o " not found">>))
         ELSE LoadDependencies(P, plugin_name, i + 1, depth)

\* The loop `for dependency in plugin.dependencies` of load_plugin(plugin_name),
\* from the i-th dependency on, at recursion depth `depth`.
LoadDependencies(P, plugin_name, i, depth) ==
    LET deps == Get(P, plugin_name).dependencies IN
    IF i > Len(deps)
    THEN Outcome(P, NoError)
    ELSE LET dependency == deps[i] IN
         IF dependency \notin Keys(P)
         THEN Outcome(P, DependencyError(
                  <<"Dependency " \o dependency \o " for plugin " \o plugin_name
                    \o " not found">>))
         ELSE IF ~Get(P, dependency).initialized
         THEN LET r == load_plugin(P, dependency, depth + 1) IN
              IF r.raised # NoError
              THEN r
              ELSE LoadDependencies(r.plugins, plugin_name, i + 1, depth)
         ELSE LoadDependencies(P, plugin_name, i + 1, depth)

\* Mutation: a failed load restores the flags as they were when it was entered.
load_plugin_RollBack(P, plugin_name, depth) ==
    IF depth > RecursionLimit
    THEN Outcome(P, RecursionError)
    ELSE IF plugin_name \notin Keys(P)
    THEN Outcome(P, ValueError("Plugin " \o plugin_name \o " not found"))
    ELSE LET r == LoadDependencies(P, plugin_name, 1, depth) IN
         IF r.raised # NoError
         THEN Outcome(P, r.raised)
         ELSE Outcome(SetInitialized(r.plugins, plugin_name), NoError)

\* Mutation: loading a plugin that is initialized already is an error.
load_plugin_AlreadyLoadedError(P, plugin_name, depth) ==
    IF depth > RecursionLimit
    THEN Outcome(P, RecursionError)
    ELSE IF plugin_name \notin Keys(P)
    THEN Outcome(P, ValueError("Plugin " \o plugin_name \o " not found"))
    ELSE IF Get(P, plugin_name).initialized
    THEN Outcome(P, ValueError("Plugin " \o plugin_name \o " already loaded"))
    ELSE LET r == LoadDependencies(P, plugin_name, 1, depth) IN
         IF r.raised # NoError
         THEN r
         ELSE Outcome(SetInitialized(r.plugins, plugin_name), NoError)

\* Mutation: an unknown name is ignored instead of raising.
load_plugin_UnknownNameIgnored(P, plugin_name, depth) ==
    IF depth > RecursionLimit
    THEN Outcome(P, RecursionError)
    ELSE IF plugin_name \notin Keys(P)
    THEN Outcome(P, NoError)
    ELSE LET r == LoadDependencies(P, plugin_name, 1, depth) IN
         IF r.raised # NoError
         THEN r
         ELSE Outcome(SetInitialized(r.plugins, plugin_name), NoError)

\* load_plugin(plugin_name) entered at recursion depth `depth`.
load_plugin(P, plugin_name, depth) ==
    IF depth > RecursionLimit
    THEN Outcome(P, RecursionError)
    ELSE IF plugin_name \notin Keys(P)
    THEN Outcome(P, ValueError("Plugin " \o plugin_name \o " not found"))
    ELSE LET r == LoadDependencies(P, plugin_name, 1, depth) IN
         IF r.raised # NoError
         THEN r
         ELSE Outcome(SetInitialized(r.plugins, plugin_name), NoError)

\* The loop of load_all_plugins over the registry keys, from position i on.
RECURSIVE LoadAllFrom(_, _)
LoadAllFrom(P, i) ==
    IF i > Len(P)
    THEN Outcome(P, NoError)
    ELSE IF ~P[i].initialized
    THEN LET r == load_plugin(P, P[i].name, 1) IN
         IF r.raised # NoError THEN r ELSE LoadAllFrom(r.plugins, i + 1)
    ELSE LoadAllFrom(P, i + 1)

load_all_plugins(P) == LoadAllFrom(P, 1)

-----------------------------------------------------------------------------
(* execute_plugins *)

\* Mutation: of two values with equal keys the one inserted later comes first.
SortsBefore_TiesReversed(P, i, j) ==
    \/ P[i].priority < P[j].priority
    \/ P[i].priority = P[j].priority /\ i > j

\* sorted(self.plugins.values(), key=lambda x: x.priority): the builtin sort is
\* stable, so a value's position is the number of values that sort before it.
SortsBefore(P, i, j) ==
    \/ P[i].priority < P[j].priority
    \/ P[i].priority = P[j].priority /\ i < j

\* Mutation: no sort, the plugins are visited in registry order.
sorted_plugins_RegistryOrder(P) == [k \in DOMAIN P |-> P[k].name]

\* Mutation: the sort is descending (reverse=True).
sorted_plugins_Descending(P) ==
    [k \in DOMAIN P |->
        LET i == CHOOSE i \in DOMAIN P :
                     Cardinality({j \in DOMAIN P :
                         \/ P[j].priority > P[i].priority
                         \/ P[j].priority = P[i].priority /\ j < i}) = k - 1
        IN P[i].name]

sorted_plugins(P) ==
    [k \in DOMAIN P |->
        LET i == CHOOSE i \in DOMAIN P :
                     Cardinality({j \in DOMAIN P : SortsBefore(P, j, i)}) = k - 1
        IN P[i].name]

\* Mutation: the set `executed` outlives the call, so a later call starts from
\* the names the call before it executed.
Run0_KeepExecuted ==
    [executed |-> executed, calls |-> <<>>, raised |-> NoError, reached |-> <<>>]

\* executed = set()
Run0 == [executed |-> {}, calls |-> <<>>, raised |-> NoError, reached |-> <<>>]

\* The point after `if plugin.name in executed: return`: the plugin called
\* `name` was not executed, and `executed` is as the local set is then.
Reach(st, name) ==
    [st EXCEPT !.reached = Append(st.reached, [name |-> name, executed |-> st.executed])]

RECURSIVE execute_with_dependencies(_, _, _, _, _)
RECURSIVE ExecuteDependencies(_, _, _, _, _, _)

\* Mutation: the dependencies are walked from the last listed to the first.
ExecuteDependencies_ReverseOrder(P, st, name, i, failing, depth) ==
    LET deps == Get(P, name).dependencies IN
    IF i > Len(deps)
    THEN st
    ELSE LET dep_name == deps[Len(deps) + 1 - i] IN
         IF dep_name \notin Keys(P)
         THEN [st EXCEPT !.raised = KeyError(dep_name)]
         ELSE LET r == execute_with_dependencies(P, st, dep_name, failing, depth + 1) IN
              IF r.raised # NoError
              THEN r
              ELSE ExecuteDependencies(P, r, name, i + 1, failing, depth)

\* The loop `for dep_name in plugin.dependencies`, from the i-th name on.
ExecuteDependencies(P, st, name, i, failing, depth) ==
    LET deps == Get(P, name).dependencies IN
    IF i > Len(deps)
    THEN st
    ELSE LET dep_name == deps[i] IN
         IF dep_name \notin Keys(P)
         THEN [st EXCEPT !.raised = KeyError(dep_name)]
         ELSE LET r == execute_with_dependencies(P, st, dep_name, failing, depth + 1) IN
              IF r.raised # NoError
              THEN r
              ELSE ExecuteDependencies(P, r, name, i + 1, failing, depth)

\* Mutation: the plugin's execute() runs before its dependencies are visited.
execute_with_dependencies_PluginFirst(P, st, name, failing, depth) ==
    IF depth > RecursionLimit
    THEN [st EXCEPT !.raised = RecursionError]
    ELSE IF name \in st.executed
    THEN st
    ELSE IF name \in failing
    THEN [st EXCEPT !.calls = Append(st.calls, name),
                    !.raised = PluginFailure(name)]
    ELSE ExecuteDependencies(
             P,
             [st EXCEPT !.calls = Append(st.calls, name),
                        !.executed = st.executed \cup {name}],
             name, 1, failing, depth)

\* Mutation: no `if plugin.name in executed: return`.
execute_with_dependencies_NoExecutedCheck(P, st, name, failing, depth) ==
    IF depth > RecursionLimit
    THEN [st EXCEPT !.raised = RecursionError]
    ELSE LET r == ExecuteDependencies(P, st, name, 1, failing, depth) IN
         IF r.raised # NoError
         THEN r
         ELSE IF name \in failing
         THEN [r EXCEPT !.calls = Append(r.calls, name),
                        !.raised = PluginFailure(name)]
         ELSE [r EXCEPT !.calls = Append(r.calls, name),
                        !.executed = r.executed \cup {name}]

\* execute_with_dependencies(plugin) for the plugin called `name`; the plugins
\* in `failing` are those whose execute() raises.
execute_with_dependencies(P, st, name, failing, depth) ==
    IF depth > RecursionLimit
    THEN [st EXCEPT !.raised = RecursionError]
    ELSE IF name \in st.executed
    THEN st
    ELSE LET r == ExecuteDependencies(P, Reach(st, name), name, 1, failing, depth) IN
         IF r.raised # NoError
         THEN r
         ELSE IF name \in failing
         THEN [r EXCEPT !.calls = Append(r.calls, name),
                        !.raised = PluginFailure(name)]
         ELSE [r EXCEPT !.calls = Append(r.calls, name),
                        !.executed = r.executed \cup {name}]

\* The loop `for plugin in sorted_plugins`, from position i on.
RECURSIVE ExecuteFrom(_, _, _, _, _)
\* Mutation: an exception is held back while the remaining plugins are
\* visited and raised when the loop is over.
ExecuteFrom_ContinueAfterFailure(P, order, st, i, failing) ==
    IF i > Len(order)
    THEN st
    ELSE LET r == execute_with_dependencies(P, st, order[i], failing, 1) IN
         IF r.raised # NoError
         THEN [ExecuteFrom(P, order, [r EXCEPT !.raised = NoError], i + 1, failing)
                  EXCEPT !.raised = r.raised]
         ELSE ExecuteFrom(P, order, r, i + 1, failing)

ExecuteFrom(P, order, st, i, failing) ==
    IF i > Len(order)
    THEN st
    ELSE LET r == execute_with_dependencies(P, st, order[i], failing, 1) IN
         IF r.raised # NoError THEN r ELSE ExecuteFrom(P, order, r, i + 1, failing)

execute_plugins(P, failing) == ExecuteFrom(P, sorted_plugins(P), Run0, 1, failing)

-----------------------------------------------------------------------------
(* discover_plugins *)

\* What a subdirectory of the plugin root holds: no __init__.py, a module whose
\* import raises, a module without plugin_class, a plugin_class that is no
\* subclass of BasePlugin, or a plugin class.
EntryKinds == {"no_init", "import_error", "no_binding", "not_plugin", "plugin"}

Entries(i) ==
    {[dirname |-> DirPool[i], kind |-> k, cls |-> DummyPlugin] :
        k \in EntryKinds \ {"plugin"}}
    \cup {[dirname |-> DirPool[i], kind |-> "plugin", cls |-> c] : c \in PluginClasses}

\* Dependency entries the instance made for a directory entry carries.
EntryDeps(e) ==
    IF e.kind = "plugin" THEN Len(create(e.cls, e.dirname, 0, <<>>).dependencies) ELSE 0

\* Results of list_directories(plugin_dir): any of the pool's subdirectories, in
\* pool order, whose plugins declare at most `budget` dependencies together.
RECURSIVE ListingsFrom(_, _)
ListingsFrom(i, budget) ==
    IF i > Len(DirPool)
    THEN {<<>>}
    ELSE ListingsFrom(i + 1, budget)
         \cup UNION {{<<e>> \o l : l \in ListingsFrom(i + 1, budget - EntryDeps(e))} :
                     e \in {e \in Entries(i) : EntryDeps(e) <= budget}}

Listings == ListingsFrom(1, MaxListedDeps)

Scan(P, exc, seen) == [plugins |-> P, raised |-> exc, checked |-> seen]

\* The loop `for dirname in list_directories(plugin_dir)`, from position i on.
RECURSIVE DiscoverFrom(_, _, _, _)
\* Mutation: a module without plugin_class ends the scan (break).
DiscoverFrom_StopAtMissingBinding(P, listing, i, seen) ==
    IF i > Len(listing)
    THEN Scan(P, NoError, seen)
    ELSE LET e == listing[i]
             now == Append(seen, e.dirname)
             module_name == ModuleName(e.dirname)
         IN
         IF e.kind = "no_init"
         THEN DiscoverFrom(P, listing, i + 1, now)
         ELSE IF e.kind = "import_error"
         THEN Scan(P, ImportError(module_name), now)
         ELSE IF e.kind = "plugin"
         THEN DiscoverFrom(RegisterPluginResult(P, module_name, e.cls), listing, i + 1, now)
         ELSE IF e.kind = "no_binding"
         THEN Scan(P, NoError, now)
         ELSE DiscoverFrom(P, listing, i + 1, now)

DiscoverFrom(P, listing, i, seen) ==
    IF i > Len(listing)
    THEN Scan(P, NoError, seen)
    ELSE LET e == listing[i]
             now == Append(seen, e.dirname)
             module_name == ModuleName(e.dirname)
         IN
         IF e.kind = "no_init"
         THEN DiscoverFrom(P, listing, i + 1, now)
         ELSE IF e.kind = "import_error"
         THEN Scan(P, ImportError(module_name), now)
         ELSE IF e.kind = "plugin"
         THEN DiscoverFrom(RegisterPluginResult(P, module_name, e.cls), listing, i + 1, now)
         ELSE DiscoverFrom(P, listing, i + 1, now)

discover_plugins(P, listing) == DiscoverFrom(P, listing, 1, <<>>)

-----------------------------------------------------------------------------
(* run *)

RunResult(P, st, started) ==
    [plugins |-> P, raised |-> st.raised, calls |-> st.calls,
     executed |-> st.executed, reached |-> st.reached, server |-> started]

\* Mutation: an exception of load_all_plugins is swallowed and the plugins are
\* executed all the same.
run_ExecuteAfterFailedLoad(P, failing) ==
    LET l == load_all_plugins(P)
        x == execute_plugins(l.plugins, failing)
    IN RunResult(l.plugins, x, x.raised = NoError)

\* run(): load_all_plugins(), execute_plugins(), app.run_server(...).
run(P, failing) ==
    LET l == load_all_plugins(P) IN
    IF l.raised # NoError
    THEN RunResult(l.plugins, [Run0 EXCEPT !.raised = l.raised], FALSE)
    ELSE LET x == execute_plugins(l.plugins, failing) IN
         RunResult(l.plugins, x, x.raised = NoError)

-----------------------------------------------------------------------------
(* src/src/api/utils/logging.py *)

\* The functions the module defines.
LoggingExports == {"configure_main_logger", "get_plugin_logger"}

\* Most handlers one plugin logger is followed up to.
MaxHandlers == 2

RootLogger == "root"

\* Names passed to get_plugin_logger.
PluginLoggers == {ModuleName(DirPool[1]), ModuleName(DirPool[2])}

LoggerNames == {RootLogger} \cup PluginLoggers

None == "None"

\* Paths passed as log_file.
LogFiles == {"a.log", "b.log"}

Stdout == "sys.stdout"

\* log_level arguments: getattr(logging, log_level.upper(), None) is an int for
\* the first two.
LogLevels == {"INFO", "debug", "verbose"}

\* getattr(logging, log_level.upper(), None), by the name of the level found.
NumericLevel(log_level) ==
    CASE log_level = "INFO" -> "INFO"
      [] log_level = "debug" -> "DEBUG"
      [] OTHER -> None

\* logging.WARNING, the level of the root logger before it is configured.
WARNING == "WARNING"

\* logging.NOTSET, the level of a logger nobody set a level on.
NOTSET == "NOTSET"

\* A handler object: what it writes to, and which object it is.  `in` on a list
\* of handlers compares objects.
Handler(obj, dest) == [obj |-> obj, dest |-> dest]

\* logging.FileHandler(log_file): a new object on every call.
FileHandler(log_file) == Handler("FileHandler", log_file)

\* logging.StreamHandler(sys.stdout): a new object on every call.
StreamHandler(stream) == Handler("StreamHandler", stream)

\* Handler objects a caller passes in additional_handlers.
CallerHandlers == {Handler("h1", Stdout), Handler("h2", "a.log")}

\* additional_handlers arguments: lists of caller handlers; the empty list
\* also stands for None, both being false in `if additional_handlers`.
AdditionalHandlers == UNION {[1..n -> CallerHandlers] : n \in 0..2}

Logger(level, hs) == [level |-> level, handlers |-> hs]

\* The logging module before any call: no logger has a handler.
Loggers0 ==
    [n \in LoggerNames |-> IF n = RootLogger THEN Logger(WARNING, <<>>)
                                             ELSE Logger(NOTSET, <<>>)]

\* The loop over additional_handlers, from position i on.
RECURSIVE AddAdditional(_, _, _)
AddAdditional(hs, additional, i) ==
    IF i > Len(additional)
    THEN hs
    ELSE IF additional[i] \notin Range(hs)
    THEN AddAdditional(Append(hs, additional[i]), additional, i + 1)
    ELSE AddAdditional(hs, additional, i + 1)

LogOutcome(L, exc) == [loggers |-> L, raised |-> exc]

\* configure_main_logger(log_level, log_file, log_to_stdout, additional_handlers)
configure_main_logger(L, log_level, log_file, log_to_stdout, additional_handlers) ==
    IF NumericLevel(log_level) = None
    THEN LogOutcome(L, ValueError("Invalid log level: " \o log_level))
    ELSE LET removed == <<>>
             with_file == IF log_file # None
                          THEN Append(removed, FileHandler(log_file))
                          ELSE removed
             with_stream == IF log_to_stdout
                            THEN Append(with_file, StreamHandler(Stdout))
                            ELSE with_file
             with_more == IF additional_handlers # <<>>
                          THEN AddAdditional(with_stream, additional_handlers, 1)
                          ELSE with_stream
         IN LogOutcome([L EXCEPT ![RootLogger] =
                            Logger(NumericLevel(log_level), with_more)],
                       NoError)

\* get_plugin_logger(plugin_name, log_file)
get_plugin_logger(L, plugin_name, log_file) ==
    IF log_file # None /\ log_file # ""
    THEN [L EXCEPT ![plugin_name].handlers = Append(@, FileHandler(log_file))]
    ELSE L

\* Logger.callHandlers: a record logged on a logger goes to its own handlers
\* and then, propagate being true, to those of the root logger.
Emit(L, name) ==
    IF name = RootLogger
    THEN [i \in DOMAIN L[name].handlers |-> L[name].handlers[i].dest]
    ELSE [i \in DOMAIN L[name].handlers |-> L[name].handlers[i].dest]
         \o [i \in DOMAIN L[RootLogger].handlers |-> L[RootLogger].handlers[i].dest]

-----------------------------------------------------------------------------
(* src/main.py *)

\* from src.api.utils.logging import get_main_logger
LoggingImports == {"get_main_logger"}

\* The parameters of DStone.__init__ after self; none has a default.
DStoneInitParams == <<"plugins_dir", "assets_dir">>

\* The arguments of the call DStone(str(plugins_dir)) in main().
MainDStoneArgs == <<"str(plugins_dir)">>

\* How the process stands: its exit status (None while it runs), what main()
\* logged about an exception, whether dstone.run was called, and the exception
\* that ended it.
Process(status, logged, ran, exc) ==
    [status |-> status, logged |-> logged, ran |-> ran, raised |-> exc]

NotStarted == Process(None, "", FALSE, NoError)

\* An exception no handler of main() catches: the interpreter prints the
\* traceback and exits with status 1.
Uncaught(exc, ran) == Process(1, "", ran, exc)

\* The try statement around dstone.run(): sys.exit(1) in both handlers.
MainTry(r) ==
    IF r.raised = NoError
    THEN Process(0, "", TRUE, NoError)
    ELSE IF r.raised.type = "DependencyError"
    THEN Process(1, "Dependency Error", TRUE, r.raised)
    ELSE Process(1, "An unexpected error occurred", TRUE, r.raised)

\* python main.py: the imports at the top of the module, then main(); the
\* plugin root holds `listing` and the plugins in `failing` raise in execute().
main(listing, failing) ==
    IF ~(LoggingImports \subseteq LoggingExports)
    THEN Uncaught(ImportError("src.api.utils.logging"), FALSE)
    ELSE IF Len(MainDStoneArgs) # Len(DStoneInitParams)
    THEN Uncaught(TypeError("DStone.__init__() missing 1 required positional argument"),
                  FALSE)
    ELSE LET d == discover_plugins(<<>>, listing) IN
         IF d.raised # NoError
         THEN Uncaught(d.raised, FALSE)
         ELSE MainTry(run(d.plugins, failing))

-----------------------------------------------------------------------------
(* src/src/api/utils/bytes.py: human_readable_to_bytes *)

\* Longest size_string passed to human_readable_to_bytes.
MaxSizeLen == 4

\* The characters of a size_string; a string is the sequence of its characters.
Chars == {"1", ".", " ", "K", "i", "B", "x"}

SizeStrings == UNION {[1..n -> Chars] : n \in 0..MaxSizeLen}

IsSpace(c) == c = " "

IsDigit(c) == c = "1"

\* str.upper() of one character.
Upper(c) == IF c = "i" THEN "I" ELSE c

\* The string a sequence of characters spells, in upper case.
RECURSIVE UpperString(_)
UpperString(cs) == IF cs = <<>> THEN "" ELSE Upper(Head(cs)) \o UpperString(Tail(cs))

\* The first position from i on that holds no whitespace.
RECURSIVE SkipSpace(_, _)
SkipSpace(s, i) == IF i <= Len(s) /\ IsSpace(s[i]) THEN SkipSpace(s, i + 1) ELSE i

\* The first position from i on that holds no digit.
RECURSIVE SkipDigits(_, _)
SkipDigits(s, i) == IF i <= Len(s) /\ IsDigit(s[i]) THEN SkipDigits(s, i + 1) ELSE i

\* Where the optional group of a dot and digits ends when tried at position i.
SkipFraction(s, i) ==
    IF i <= Len(s) /\ s[i] = "." /\ SkipDigits(s, i + 1) > i + 1
    THEN SkipDigits(s, i + 1)
    ELSE i

\* Where the unit group, one of BKMGTP, an optional I and an optional B, ends
\* when tried at position i under re.IGNORECASE; i when it does not match.
SkipUnit(s, i) ==
    IF i <= Len(s) /\ Upper(s[i]) \in {"B", "K", "M", "G", "T", "P"}
    THEN LET j == IF i + 1 <= Len(s) /\ Upper(s[i + 1]) = "I" THEN i + 2 ELSE i + 1
         IN IF j <= Len(s) /\ Upper(s[j]) = "B" THEN j + 1 ELSE j
    ELSE i

NoMatch == [matched |-> FALSE]

\* re.match(pattern, size_string, re.IGNORECASE): whitespace, the number group
\* (digits, optionally a dot and digits), whitespace, the unit group,
\* whitespace, end of string.  No character belongs to two neighbouring parts
\* of the pattern, so the greedy match is the only one.
Match(s) ==
    LET a == SkipSpace(s, 1)
        b == SkipDigits(s, a)
        c == SkipFraction(s, b)
        d == SkipSpace(s, c)
        e == SkipUnit(s, d)
        f == SkipSpace(s, e)
    IN IF b > a /\ e > d /\ f = Len(s) + 1
       THEN [matched |-> TRUE,
             whole |-> SubSeq(s, a, b - 1),
             fraction |-> IF c > b THEN SubSeq(s, b + 1, c - 1) ELSE <<>>,
             unit |-> SubSeq(s, d, e - 1)]
       ELSE NoMatch

\* The keys of the dict `units`.
UnitKeys == {"B", "KIB", "MIB", "GIB", "TIB", "PIB"}

\* units[key]
units(key) ==
    CASE key = "B" -> 1
      [] key = "KIB" -> 1024
      [] key = "MIB" -> 1024 * 1024
      [] key = "GIB" -> 1024 * 1024 * 1024
      [] key = "TIB" -> 1024 * 1024 * 1024 * 1024
      [] key = "PIB" -> 1024 * 1024 * 1024 * 1024 * 1024

DigitValue(c) == CASE c = "1" -> 1

\* The number a sequence of digits spells.
RECURSIVE DigitsValue(_)
DigitsValue(ds) ==
    IF ds = <<>>
    THEN 0
    ELSE 10 * DigitsValue(SubSeq(ds, 1, Len(ds) - 1)) + DigitValue(ds[Len(ds)])

RECURSIVE Pow10(_)
Pow10(n) == IF n = 0 THEN 1 ELSE 10 * Pow10(n - 1)

\* int(float(size) * factor), the product truncated.
Scaled(whole, fraction, factor) ==
    ((DigitsValue(whole) * Pow10(Len(fraction)) + DigitsValue(fraction)) * factor)
        \div Pow10(Len(fraction))

Returned(value) == [value |-> value, raised |-> NoError]

Raised(exc) == [value |-> None, raised |-> exc]

human_readable_to_bytes(size_string) ==
    LET match == Match(size_string) IN
    IF ~match.matched
    THEN Raised(ValueError("Invalid size string format"))
    ELSE LET unit == UpperString(match.unit) IN
         IF unit \notin UnitKeys
         THEN Raised(KeyError(unit))
         ELSE Returned(Scaled(match.whole, match.fraction, units(unit)))

-----------------------------------------------------------------------------
(* src/src/api/utils/bytes.py: seconds_to_human_readable *)

MaxSeconds == 3700

MaxDays == 2

\* The arguments followed: every number of seconds up to MaxSeconds, and the
\* numbers made of up to MaxDays days and a few hours, minutes and seconds.
SecondsInputs ==
    (0..MaxSeconds)
    \cup {d * 86400 + h * 3600 + m * 60 + sec :
              d \in 0..MaxDays, h \in {0, 1, 2, 23}, m \in {0, 1, 59}, sec \in {0, 1, 59}}

\* intervals = [(60 * 60 * 24, 'day'), (60 * 60, 'hour'), (60, 'minute'), (1, 'second')]
intervals ==
    <<[count |-> 60 * 60 * 24, name |-> "day"],
      [count |-> 60 * 60, name |-> "hour"],
      [count |-> 60, name |-> "minute"],
      [count |-> 1, name |-> "second"]>>

\* Mutation: the unit name always gets its plural s.
IntervalPart_AlwaysPlural(value, name) == ToString(value) \o " " \o name \o "s"

\* f"{value} {name}" if value == 1, else f"{value} {name}s"
IntervalPart(value, name) ==
    IF value = 1
    THEN ToString(value) \o " " \o name
    ELSE ToString(value) \o " " \o name \o "s"

\* The loop `for count, name in intervals`, from the i-th interval on, with
\* `seconds` as the loop has left it; the strings appended to `result`.
RECURSIVE IntervalParts(_, _)
IntervalParts(seconds, i) ==
    IF i > Len(intervals)
    THEN <<>>
    ELSE LET count == intervals[i].count
             name == intervals[i].name
             value == seconds \div count
         IN IF value # 0
            THEN <<IntervalPart(value, name)>>
                     \o IntervalParts(seconds - value * count, i + 1)
            ELSE IntervalParts(seconds, i + 1)

\* ', '.join(result)
RECURSIVE Join(_, _)
Join(separator, strings) ==
    IF strings = <<>>
    THEN ""
    ELSE IF Len(strings) = 1
    THEN strings[1]
    ELSE strings[1] \o separator \o Join(separator, Tail(strings))

seconds_to_human_readable(seconds) == Join(", ", IntervalParts(seconds, 1))

-----------------------------------------------------------------------------
(* src/src/api/utils/bytes.py: int_to_bytes and bytes_to_int *)

MaxInt == 300

\* The integers followed: all up to MaxInt, and those around the steps to a
\* third and a fourth byte.
IntInputs == (0..MaxInt) \cup {65535, 65536, 16777215, 16777216}

ByteOrders == {"big", "little"}

\* x.bit_length()
RECURSIVE bit_length(_)
bit_length(x) == IF x = 0 THEN 0 ELSE 1 + bit_length(x \div 2)

\* Whether x needs no more than `length` bytes.
RECURSIVE Fits(_, _)
Fits(x, length) == IF length = 0 THEN x = 0 ELSE Fits(x \div 256, length - 1)

\* The `length` low bytes of x, the most significant first.
RECURSIVE BigEndian(_, _)
BigEndian(x, length) ==
    IF length = 0 THEN <<>> ELSE Append(BigEndian(x \div 256, length - 1), x % 256)

Reverse(seq) == [i \in DOMAIN seq |-> seq[Len(seq) + 1 - i]]

OverflowError == Exc("OverflowError", NoName, NoName, "int too big to convert")

\* x.to_bytes(length, byteorder=byteorder) for x >= 0
to_bytes(x, length, byteorder) ==
    IF ~Fits(x, length)
    THEN Raised(OverflowError)
    ELSE IF byteorder = "big"
    THEN Returned(BigEndian(x, length))
    ELSE Returned(Reverse(BigEndian(x, length)))

\* int_to_bytes(x, byteorder=byteorder): length is None.
int_to_bytes(x, byteorder) ==
    LET length == (bit_length(x) + 7) \div 8 IN
    to_bytes(x, length, byteorder)

\* int.from_bytes of bytes given most significant first.
RECURSIVE FromBigEndian(_)
FromBigEndian(bs) ==
    IF bs = <<>>
    THEN 0
    ELSE FromBigEndian(SubSeq(bs, 1, Len(bs) - 1)) * 256 + bs[Len(bs)]

\* Mutation: the byte order argument is ignored, the bytes are read big-endian.
bytes_to_int_AlwaysBig(byte_string, byteorder) == FromBigEndian(byte_string)

\* int.from_bytes(byte_string, byteorder=byteorder)
bytes_to_int(byte_string, byteorder) ==
    IF byteorder = "big"
    THEN FromBigEndian(byte_string)
    ELSE FromBigEndian(Reverse(byte_string))

-----------------------------------------------------------------------------
(* The state machine *)

Call(name, arg) == [name |-> name, arg |-> arg]

\* A call of register_plugin(plugin_name, plugin_class).
RegisterCall(plugin_name, plugin_class) ==
    [name |-> "register_plugin", arg |-> plugin_name, cls |-> plugin_class]

\* A call of execute_plugins(); `repeated` when the call before it on the same
\* orchestrator was execute_plugins too.
ExecuteCall(arg, repeated) ==
    [name |-> "execute_plugins", arg |-> arg, repeated |-> repeated]

\* A call of load_all_plugins(); `repeated` when the call before it on the same
\* orchestrator was load_all_plugins too.
LoadAllCall(repeated) ==
    [name |-> "load_all_plugins", arg |-> NoName, repeated |-> repeated]

\* After `self.plugins = {}` in __init__, before discover_plugins.
Init ==
    /\ plugins = <<>>
    /\ stage = "constructing"
    /\ op = Call("__init__", NoName)
    /\ raised = NoError
    /\ calls = <<>>
    /\ executed = {}
    /\ reached = <<>>
    /\ listed = <<>>
    /\ checked = <<>>
    /\ server = FALSE
    /\ process = NotStarted
    /\ loggers = Loggers0
    /\ result = None

\* __init__ calls discover_plugins(plugins_dir); an exception leaves no object.
DiscoverPlugins(listing) ==
    /\ stage = "constructing"
    /\ LET r == discover_plugins(plugins, listing) IN
       /\ plugins' = r.plugins
       /\ raised' = r.raised
       /\ checked' = r.checked
       /\ stage' = IF r.raised = NoError THEN "ready" ELSE "failed"
    /\ listed' = listing
    /\ op' = Call("discover_plugins", NoName)
    /\ UNCHANGED <<calls, executed, reached, server, process, loggers, result>>

\* The argument recorded for execute_plugins and run: the plugin whose
\* execute() was invoked and raised, NoName when there is none.
Failing(failing, invoked) ==
    IF failing \cap Range(invoked) = {}
    THEN NoName
    ELSE CHOOSE n \in failing \cap Range(invoked) : TRUE

\* Plugin names carry no order of their own, so new keys enter the registry in
\* pool order; every registry is one of these up to renaming.
InPoolOrder(P, name) ==
    \/ name \in Keys(P)
    \/ \A k \in Keys(P) : PoolIndex(k) < PoolIndex(name)

Callable == stage = "ready" /\ ~server

\* The last call registered plugins.
Registering == op.name \in {"discover_plugins", "register_plugin"}

\* A caller registers new plugins on an orchestrator whose discovery found
\* none, before the first load or execute call; or it replaces an initialized
\* plugin right after load_all_plugins.
CanRegister(P, plugin_name) ==
    \/ /\ Registering
       /\ op.name = "discover_plugins" => P = <<>>
       /\ \A i \in DOMAIN P : ~P[i].initialized
       /\ plugin_name \notin Keys(P)
    \/ /\ op.name = "load_all_plugins"
       /\ plugin_name \in Keys(P)
       /\ Get(P, plugin_name).initialized

\* The classes that keep the registry within MaxDepTotal dependency entries
\* when registered under plugin_name.
Registrable(P, plugin_name) ==
    LET others == SumLen(SelectSeq(P, LAMBDA p : p.name # plugin_name)) IN
    {c \in PluginClasses :
        others + Len(create(c, plugin_name, 0, <<>>).dependencies) <= MaxDepTotal}

RegisterPlugin(plugin_name, plugin_class) ==
    /\ Callable
    /\ CanRegister(plugins, plugin_name)
    /\ InPoolOrder(plugins, plugin_name)
    /\ plugin_class \in Registrable(plugins, plugin_name)
    /\ plugins' = RegisterPluginResult(plugins, plugin_name, plugin_class)
    /\ op' = RegisterCall(plugin_name, plugin_class)
    /\ raised' = NoError
    /\ calls' = <<>>
    /\ executed' = {}
    /\ reached' = <<>>
    /\ listed' = <<>>
    /\ checked' = <<>>
    /\ UNCHANGED <<stage, server, process, loggers, result>>

LoadPlugin(plugin_name) ==
    /\ Callable
    /\ LET r == load_plugin(plugins, plugin_name, 1) IN
       /\ plugins' = r.plugins
       /\ raised' = r.raised
    /\ op' = Call("load_plugin", plugin_name)
    /\ calls' = <<>>
    /\ executed' = {}
    /\ reached' = <<>>
    /\ listed' = <<>>
    /\ checked' = <<>>
    /\ UNCHANGED <<stage, server, process, loggers, result>>

LoadAllPlugins ==
    /\ Callable
    /\ LET r == load_all_plugins(plugins) IN
       /\ plugins' = r.plugins
       /\ raised' = r.raised
    /\ op' = LoadAllCall(op.name = "load_all_plugins")
    /\ calls' = <<>>
    /\ executed' = {}
    /\ reached' = <<>>
    /\ listed' = <<>>
    /\ checked' = <<>>
    /\ UNCHANGED <<stage, server, process, loggers, result>>

\* execute_plugins reads no initialized flag; it is called on the registry as
\* registered, or after load_all_plugins or an earlier execution.
ExecutePlugins(failing) ==
    /\ Callable
    /\ op.name # "load_plugin"
    /\ LET r == execute_plugins(plugins, failing) IN
       /\ raised' = r.raised
       /\ calls' = r.calls
       /\ executed' = r.executed
       /\ reached' = r.reached
       /\ op' = ExecuteCall(Failing(failing, r.calls), op.name = "execute_plugins")
    /\ listed' = <<>>
    /\ checked' = <<>>
    /\ UNCHANGED <<plugins, stage, server, process, loggers, result>>

\* run() is called on the orchestrator as registered.
Run(failing) ==
    /\ Callable
    /\ Registering
    /\ LET r == run(plugins, failing) IN
       /\ plugins' = r.plugins
       /\ raised' = r.raised
       /\ calls' = r.calls
       /\ executed' = r.executed
       /\ reached' = r.reached
       /\ server' = r.server
       /\ op' = Call("run", Failing(failing, r.calls))
    /\ listed' = <<>>
    /\ checked' = <<>>
    /\ UNCHANGED <<stage, process, loggers, result>>

\* The plugins whose execute() raises during one call: none or one of them
\* (the call ends at the first execute() that raises).
Failures(P) == {{}} \cup {{n} : n \in Keys(P)}

\* python main.py, the process from its start to its exit.
Main(listing, failing) ==
    /\ stage = "constructing"
    /\ process' = main(listing, failing)
    /\ raised' = process'.raised
    /\ stage' = "exited"
    /\ op' = Call("main", NoName)
    /\ UNCHANGED <<plugins, calls, executed, reached, listed, checked, server, loggers, result>>

\* What the plugin root holds when main.py starts: nothing, or the dummy plugin.
MainListings ==
    {<<>>, <<[dirname |-> DirPool[1], kind |-> "plugin", cls |-> DummyPlugin]>>}

Next ==
    \/ /\ stage = "constructing"
       /\ \E listing \in Listings : DiscoverPlugins(listing)
    \/ /\ stage = "constructing"
       /\ \E listing \in MainListings : Main(listing, {})
    \/ /\ Callable
       /\ \/ op.name = "register_plugin"
          \/ op.name = "discover_plugins" /\ plugins = <<>>
          \/ op.name = "load_all_plugins"
       /\ \E n \in {n \in Names : InPoolOrder(plugins, n) /\ CanRegister(plugins, n)} :
              \E c \in Registrable(plugins, n) : RegisterPlugin(n, c)
    \/ \E n \in Names : LoadPlugin(n)
    \/ LoadAllPlugins
    \/ /\ op.name # "execute_plugins"
       /\ \E failing \in Failures(plugins) : ExecutePlugins(failing)
    \/ \E failing \in Failures(plugins) : Run(failing)

Spec == Init /\ [][Next]_vars

-----------------------------------------------------------------------------
(* The logging module on its own: any sequence of calls of its two functions *)

ConfigureMainLogger(log_level, log_file, log_to_stdout, additional_handlers) ==
    /\ LET r == configure_main_logger(loggers, log_level, log_file, log_to_stdout,
                                      additional_handlers) IN
       /\ loggers' = r.loggers
       /\ raised' = r.raised
    /\ op' = Call("configure_main_logger", log_level)
    /\ result' = None
    /\ UNCHANGED <<plugins, stage, calls, executed, reached, listed, checked, server,
                   process>>

\* A plugin logger is followed until it carries MaxHandlers handlers.
GetPluginLogger(plugin_name, log_file) ==
    /\ log_file # None => Len(loggers[plugin_name].handlers) < MaxHandlers
    /\ loggers' = get_plugin_logger(loggers, plugin_name, log_file)
    /\ raised' = NoError
    /\ op' = Call("get_plugin_logger", plugin_name)
    /\ result' = plugin_name
    /\ UNCHANGED <<plugins, stage, calls, executed, reached, listed, checked, server,
                   process>>

NextLogging ==
    \/ \E log_level \in LogLevels, log_file \in {None} \cup LogFiles,
          log_to_stdout \in BOOLEAN, additional_handlers \in AdditionalHandlers :
           ConfigureMainLogger(log_level, log_file, log_to_stdout, additional_handlers)
    \/ \E plugin_name \in PluginLoggers, log_file \in {None} \cup LogFiles :
           GetPluginLogger(plugin_name, log_file)

SpecLogging == Init /\ [][NextLogging]_vars

-----------------------------------------------------------------------------
(* The bytes module on its own: calls of its functions *)

\* A call of human_readable_to_bytes(size_string), of
\* seconds_to_human_readable(seconds) or of int_to_bytes(x, byteorder=byteorder)
\* about to be made.
InitBytes ==
    /\ plugins = <<>>
    /\ stage = "calling"
    /\ op \in {Call("human_readable_to_bytes", size_string) :
                   size_string \in SizeStrings}
              \cup {Call("seconds_to_human_readable", seconds) :
                        seconds \in SecondsInputs}
              \cup {Call("int_to_bytes", [x |-> x, byteorder |-> byteorder]) :
                        x \in IntInputs, byteorder \in ByteOrders}
    /\ raised = NoError
    /\ calls = <<>>
    /\ executed = {}
    /\ reached = <<>>
    /\ listed = <<>>
    /\ checked = <<>>
    /\ server = FALSE
    /\ process = NotStarted
    /\ loggers = Loggers0
    /\ result = None

HumanReadableToBytes ==
    /\ stage = "calling"
    /\ op.name = "human_readable_to_bytes"
    /\ LET r == human_readable_to_bytes(op.arg) IN
       /\ result' = r.value
       /\ raised' = r.raised
    /\ stage' = "returned"
    /\ UNCHANGED <<plugins, op, calls, executed, reached, listed, checked, server, process,
                   loggers>>

SecondsToHumanReadable ==
    /\ stage = "calling"
    /\ op.name = "seconds_to_human_readable"
    /\ result' = seconds_to_human_readable(op.arg)
    /\ raised' = NoError
    /\ stage' = "returned"
    /\ UNCHANGED <<plugins, op, calls, executed, reached, listed, checked, server,
                   process, loggers>>

IntToBytes ==
    /\ stage = "calling"
    /\ op.name = "int_to_bytes"
    /\ LET r == int_to_bytes(op.arg.x, op.arg.byteorder) IN
       /\ result' = r.value
       /\ raised' = r.raised
    /\ stage' = "returned"
    /\ UNCHANGED <<plugins, op, calls, executed, reached, listed, checked, server,
                   process, loggers>>

\* bytes_to_int on the bytes int_to_bytes returned.
BytesToInt(byteorder) ==
    /\ stage = "returned"
    /\ op.name = "int_to_bytes"
    /\ raised = NoError
    /\ result' = bytes_to_int(result, byteorder)
    /\ raised' = NoError
    /\ op' = Call("bytes_to_int", [byte_string |-> result, byteorder |-> byteorder])
    /\ UNCHANGED <<plugins, stage, calls, executed, reached, listed, checked, server,
                   process, loggers>>

NextBytes ==
    \/ HumanReadableToBytes
    \/ SecondsToHumanReadable
    \/ IntToBytes
    \/ \E byteorder \in ByteOrders : BytesToInt(byteorder)

SpecBytes == InitBytes /\ [][NextBytes]_vars

-----------------------------------------------------------------------------
(* The two passes on their own: an orchestrator whose registry holds up to  *)
(* three plugins with up to MaxGraphDeps dependency entries, then a         *)
(* load_plugin call or execute_plugins calls on that registry.              *)

MaxGraphDeps == 3

GraphPriorities == {0, 1}

\* A module name under which nothing is ever registered.
Unregistered == ModuleName("missing")

\* Dependency lists of `budget` names at most, registered or not.
GraphDepLists(budget) == UNION {[1..n -> Names \cup {Unregistered}] : n \in 0..budget}

\* The registry register_plugin builds for the first n pool names, in pool
\* order, from classes declaring the priorities pr and dependency lists deps.
Registered(n, pr, deps) ==
    [i \in 1..n |->
        create([priority |-> pr[i], dependencies |-> deps[i], custom_init |-> TRUE],
               ModuleName(DirPool[i]), 0, <<>>)]

\* The orchestrator after its plugins were registered: up to three of them,
\* declaring MaxGraphDeps dependency entries at most between them.
InitRegistered ==
    /\ \E n \in 1..Len(DirPool) :
       \E pr \in [1..n -> GraphPriorities] :
       \E d1 \in GraphDepLists(MaxGraphDeps) :
       \E d2 \in IF n >= 2 THEN GraphDepLists(MaxGraphDeps - Len(d1)) ELSE {<<>>} :
       \E d3 \in IF n >= 3 THEN GraphDepLists(MaxGraphDeps - Len(d1) - Len(d2))
                            ELSE {<<>>} :
           plugins = Registered(n, pr, <<d1, d2, d3>>)
    /\ stage = "ready"
    /\ op = Call("__init__", NoName)
    /\ raised = NoError
    /\ calls = <<>>
    /\ executed = {}
    /\ reached = <<>>
    /\ listed = <<>>
    /\ checked = <<>>
    /\ server = FALSE
    /\ process = NotStarted
    /\ loggers = Loggers0
    /\ result = None

\* load_plugin on the registry as registered; execute_plugins on it as
\* registered or after execute_plugins.
NextRegistered ==
    \/ /\ op.name = "__init__"
       /\ \E n \in Names : LoadPlugin(n)
    \/ /\ op.name \in {"__init__", "execute_plugins"}
       /\ \E failing \in Failures(plugins) : ExecutePlugins(failing)

SpecRegistered == InitRegistered /\ [][NextRegistered]_vars

-----------------------------------------------------------------------------
(* Vocabulary of the properties *)

\* The names a registered plugin lists as its dependencies.
DirectDeps(P, name) == IF name \in Keys(P) THEN Range(Get(P, name).dependencies) ELSE {}

RECURSIVE DepClosure(_, _)
DepClosure(P, S) ==
    LET T == S \cup UNION {DirectDeps(P, n) : n \in S} IN
    IF T = S THEN S ELSE DepClosure(P, T)

\* The direct and transitive dependencies of a plugin.
TransDeps(P, name) == DepClosure(P, DirectDeps(P, name))

\* No plugin is among its own direct or transitive dependencies.
Acyclic(P) == \A n \in Keys(P) : n \notin TransDeps(P, n)

\* Every dependency name is a registry key.
Closed(P) == \A n \in Keys(P) : DirectDeps(P, n) \subseteq Keys(P)

\* Neither plugin is a direct or transitive dependency of the other.
Unrelated(P, a, b) == a \notin TransDeps(P, b) /\ b \notin TransDeps(P, a)

\* No registered plugin lists `name` as a dependency.
NobodyDependsOn(P, name) == \A n \in Keys(P) : name \notin DirectDeps(P, n)

\* execute() of a was invoked before execute() of b in the last call.
CalledBefore(a, b) ==
    \E i, j \in DOMAIN calls : i < j /\ calls[i] = a /\ calls[j] = b

Executing == op.name \in {"execute_plugins", "run"}

\* Every initialized plugin has its declared dependencies registered and
\* initialized.
DependencyFirst(P) ==
    \A i \in DOMAIN P :
        P[i].initialized =>
            \A d \in Range(P[i].dependencies) :
                d \in Keys(P) /\ Get(P, d).initialized

Loading(name) == name \in {"load_plugin", "load_all_plugins"}

AllInitialized(P) == \A i \in DOMAIN P : P[i].initialized

-----------------------------------------------------------------------------
(* Properties *)

\* C1: in one call of execute_plugins, whenever execute() of a plugin A is
\* invoked, execute() of every dependency B that A declares was invoked earlier
\* in the same call and has returned, whatever the priorities of A and B.
C1_DependenciesExecuteFirst ==
    Executing =>
        \A i \in DOMAIN calls :
            \A b \in DirectDeps(plugins, calls[i]) :
                /\ \E j \in 1..(i - 1) : calls[j] = b
                /\ b \in executed

\* C1 witness: a call returned in which a plugin executed after a dependency
\* of it that has the greater priority value.
C1_Witness ==
    /\ op.name = "execute_plugins"
    /\ raised = NoError
    /\ \E a, b \in Keys(plugins) :
        /\ a # b
        /\ b \in DirectDeps(plugins, a)
        /\ Get(plugins, a).priority < Get(plugins, b).priority
        /\ CalledBefore(b, a)

\* C2: no call invokes execute() of one plugin twice, and on an acyclic
\* registry whose dependency names are all registered a call in which no
\* execute() raises returns normally having invoked execute() of every
\* registered plugin exactly once.
C2_EachPluginExecutesOnce ==
    /\ \A i, j \in DOMAIN calls : calls[i] = calls[j] => i = j
    /\ (/\ Executing
        /\ Acyclic(plugins)
        /\ Closed(plugins)
        /\ raised.type # "PluginFailure")
       => /\ raised = NoError
          /\ Range(calls) = Keys(plugins)
          /\ Len(calls) = Len(plugins)

\* C2 witness: a diamond, two plugins share a dependency and the call returned
\* with three invocations.
C2_Witness ==
    /\ op.name = "execute_plugins"
    /\ raised = NoError
    /\ Len(calls) = 3
    /\ \E a, b, c \in Keys(plugins) :
        /\ a # b /\ a # c /\ b # c
        /\ c \in DirectDeps(plugins, a)
        /\ c \in DirectDeps(plugins, b)

\* C3 as stated: of two registered plugins with no dependency relationship,
\* the one with the lower priority value executes first.
C3_PriorityOrdersUnrelated ==
    op.name = "execute_plugins" =>
        \A a, b \in Keys(plugins) :
            (/\ Unrelated(plugins, a, b)
             /\ Get(plugins, a).priority < Get(plugins, b).priority
             /\ b \in Range(calls))
            => CalledBefore(a, b)

\* C3 amended: of two registered plugins with no dependency relationship, the
\* one with the lower priority value executes first, provided no registered
\* plugin lists the one with the higher priority value as a dependency.
C3_PriorityOrdersIndependent ==
    op.name = "execute_plugins" =>
        \A a, b \in Keys(plugins) :
            (/\ Unrelated(plugins, a, b)
             /\ Get(plugins, a).priority < Get(plugins, b).priority
             /\ NobodyDependsOn(plugins, b)
             /\ b \in Range(calls))
            => CalledBefore(a, b)

\* C3 witness: two unrelated plugins executed, the one registered later has
\* the lower priority value and executed first.
C3_Witness ==
    /\ op.name = "execute_plugins"
    /\ raised = NoError
    /\ \E a, b \in Keys(plugins) :
        /\ Unrelated(plugins, a, b)
        /\ Get(plugins, a).priority < Get(plugins, b).priority
        /\ NobodyDependsOn(plugins, b)
        /\ Index(plugins, b) < Index(plugins, a)
        /\ CalledBefore(a, b)

\* C4 as stated: load_plugin on a registered plugin of an acyclic registry
\* that lists a name that is no registry key fails with a DependencyError whose
\* plugin and dependency fields name a plugin and a missing dependency of it.
C4_MissingDependencyError ==
    (/\ op.name = "load_plugin"
     /\ op.arg \in Keys(plugins)
     /\ Acyclic(plugins)
     /\ ~(DirectDeps(plugins, op.arg) \subseteq Keys(plugins)))
    => /\ raised.type = "DependencyError"
       /\ raised.plugin \in Keys(plugins)
       /\ raised.dependency \in DirectDeps(plugins, raised.plugin) \ Keys(plugins)

\* C5 as stated: load_all_plugins on a registry whose dependency names are all
\* registered and whose dependency graph has a cycle fails with a
\* CircularDependencyError.
C5_CycleDetected ==
    (/\ op.name = "load_all_plugins"
     /\ Closed(plugins)
     /\ ~Acyclic(plugins))
    => raised.type = "CircularDependencyError"

\* C6: a subdirectory whose module lacks plugin_class is skipped without ending
\* the scan: the subdirectory after it is examined too and it gets no registry
\* entry; when discover_plugins returns, every subdirectory was examined in
\* order and the registry holds exactly the validly declared plugins.
C6_MissingBindingSkipped ==
    op.name = "discover_plugins" =>
        /\ \A i \in DOMAIN listed :
               (listed[i].kind = "no_binding" /\ i \in DOMAIN checked)
               => /\ ModuleName(listed[i].dirname) \notin Keys(plugins)
                  /\ i < Len(listed) => (i + 1) \in DOMAIN checked
        /\ raised = NoError
           => /\ checked = [i \in DOMAIN listed |-> listed[i].dirname]
              /\ Keys(plugins) =
                     {ModuleName(listed[i].dirname) :
                         i \in {k \in DOMAIN listed : listed[k].kind = "plugin"}}

\* C6 witness: discovery returned, a subdirectory without plugin_class came
\* before a valid plugin, and that plugin is registered.
C6_Witness ==
    /\ op.name = "discover_plugins"
    /\ raised = NoError
    /\ \E i, j \in DOMAIN listed :
        /\ i < j
        /\ listed[i].kind = "no_binding"
        /\ listed[j].kind = "plugin"
        /\ ModuleName(listed[j].dirname) \in Keys(plugins)

\* The registry of the scenario: exactly X (priority 5, no dependencies),
\* Y (priority 1, depends on X) and Z (priority 0, no dependencies).
Scenario(P, X, Y, Z) ==
    /\ X # Y /\ X # Z /\ Y # Z
    /\ Keys(P) = {X, Y, Z}
    /\ Get(P, X).priority = 5 /\ Get(P, X).dependencies = <<>>
    /\ Get(P, Y).priority = 1 /\ Get(P, Y).dependencies = <<X>>
    /\ Get(P, Z).priority = 0 /\ Get(P, Z).dependencies = <<>>

\* C7: with exactly the plugins X (priority 5), Y (priority 1, depends on X)
\* and Z (priority 0), registered in any order, a call of execute_plugins in
\* which no execute() raises invokes execute() in the sequence Z, X, Y.
C7_ScenarioOrder ==
    \A X, Y, Z \in Names :
        (/\ op.name = "execute_plugins"
         /\ Scenario(plugins, X, Y, Z)
         /\ raised.type # "PluginFailure")
        => /\ raised = NoError
           /\ calls = <<Z, X, Y>>

\* C7 witness: the scenario executed with X registered first and Z last.
C7_Witness ==
    \E X, Y, Z \in Names :
        /\ op.name = "execute_plugins"
        /\ Scenario(plugins, X, Y, Z)
        /\ Index(plugins, X) < Index(plugins, Y)
        /\ Index(plugins, Y) < Index(plugins, Z)
        /\ calls = <<Z, X, Y>>

\* C8: when the execute() of a plugin raises, the call ends there with that
\* exception: the failing plugin is the last one invoked, no plugin that waits
\* on it was invoked, and every plugin invoked before it is still recorded as
\* executed, once.
C8_FailureAbortsRun ==
    (Executing /\ (op.arg \in Range(calls) \/ raised.type = "PluginFailure")) =>
        /\ raised = PluginFailure(op.arg)
        /\ calls # <<>>
        /\ calls[Len(calls)] = op.arg
        /\ op.arg \notin executed
        /\ executed = {calls[i] : i \in 1..(Len(calls) - 1)}
        /\ Cardinality(executed) = Len(calls) - 1
        /\ \A n \in Keys(plugins) :
               op.arg \in TransDeps(plugins, n) => n \notin Range(calls)

\* C8 witness: an execute() raised after another plugin had executed, while a
\* dependent of the failing plugin and that plugin itself stay unexecuted.
C8_Witness ==
    /\ op.name = "execute_plugins"
    /\ raised.type = "PluginFailure"
    /\ Len(calls) = 2
    /\ \E n \in Keys(plugins) :
        /\ n # op.arg
        /\ op.arg \in DirectDeps(plugins, n)
        /\ n \notin Range(calls)

\* C9 as stated: load_plugin with a name that is no registry key fails with
\* PluginNotFoundError.
C9_PluginNotFoundError ==
    (op.name = "load_plugin" /\ op.arg \notin Keys(plugins))
    => raised.type = "PluginNotFoundError"

\* C9 amended: load_plugin with a name that is no registry key fails with
\* ValueError and leaves the registry and every initialized flag unchanged.
C9_UnknownNameValueError ==
    [][\A n \in Names :
          (op' = Call("load_plugin", n) /\ n \notin Keys(plugins))
          => /\ raised'.type = "ValueError"
             /\ plugins' = plugins]_vars

\* C9 witness: load_plugin failed on an unknown name while the registry holds
\* an initialized and an uninitialized plugin.
C9_Witness ==
    /\ op.name = "load_plugin"
    /\ op.arg \notin Keys(plugins)
    /\ raised.type = "ValueError"
    /\ \E i, j \in DOMAIN plugins : plugins[i].initialized /\ ~plugins[j].initialized

\* C10: on an acyclic registry whose dependency names are all registered,
\* load_all_plugins returns normally with every plugin initialized, whatever
\* the position of a plugin and of its dependencies in the registry.
C10_LoadAllInitializesAll ==
    (/\ op.name = "load_all_plugins"
     /\ Acyclic(plugins)
     /\ Closed(plugins))
    => /\ raised = NoError
       /\ AllInitialized(plugins)

\* C10 witness: load_all_plugins returned on a registry of three plugins in
\* which the first depends on the last, which depends on the second.
C10_Witness ==
    /\ op.name = "load_all_plugins"
    /\ raised = NoError
    /\ Len(plugins) = 3
    /\ AllInitialized(plugins)
    /\ plugins[3].name \in DirectDeps(plugins, plugins[1].name)
    /\ plugins[2].name \in DirectDeps(plugins, plugins[3].name)

\* C11 as stated: when load_all_plugins has run on an acyclic registry, either
\* every dependency name of every registered plugin is a registry key or the
\* call failed with a DependencyError; when it returned normally, every
\* dependency name execute_plugins will look up is a registry key.
C11_ClosedOrDependencyError ==
    (op.name = "load_all_plugins" /\ Acyclic(plugins)) =>
        /\ Closed(plugins) \/ raised.type = "DependencyError"
        /\ raised = NoError => Closed(plugins)

\* C12: run() loads, then executes, then starts the server: when resolution
\* failed, no execute() was invoked and the server was not started; an
\* execute() was invoked only with every registered plugin initialized; the
\* server was started only after every registered plugin executed, once.
C12_RunPhasesInOrder ==
    op.name = "run" =>
        /\ ~AllInitialized(plugins) =>
               /\ raised # NoError
               /\ calls = <<>>
               /\ ~server
        /\ calls # <<>> => AllInitialized(plugins)
        /\ raised # NoError => ~server
        /\ server =>
               /\ Range(calls) = Keys(plugins)
               /\ Len(calls) = Len(plugins)
               /\ executed = Keys(plugins)

\* C12 witness: run() started the server after executing three plugins, one
\* of which depends on another.
C12_Witness ==
    /\ op.name = "run"
    /\ server
    /\ Len(calls) = 3
    /\ \E a, b \in Keys(plugins) : a # b /\ b \in DirectDeps(plugins, a)

\* C13: register_plugin and discover_plugins store instances whose initialized
\* flag is false, and no call of load_plugin, load_all_plugins, execute_plugins
\* or run sets the flag of a registered plugin back from true to false.
C13_InitializedNeverReset ==
    [][/\ op'.name = "register_plugin" => ~Get(plugins', op'.arg).initialized
       /\ op'.name = "discover_plugins" =>
              \A i \in DOMAIN plugins' : ~plugins'[i].initialized
       /\ op'.name \in {"load_plugin", "load_all_plugins", "execute_plugins", "run"} =>
              \A i \in DOMAIN plugins :
                  plugins[i].initialized =>
                      /\ i \in DOMAIN plugins'
                      /\ plugins'[i].name = plugins[i].name
                      /\ plugins'[i].initialized]_vars

\* C13 witness: load_plugin returned while a plugin that is neither its
\* argument nor among the argument's dependencies is initialized, so that flag
\* was set by an earlier call and outlived this one.
C13_Witness ==
    /\ op.name = "load_plugin"
    /\ raised = NoError
    /\ \E m \in Keys(plugins) :
        /\ m # op.arg
        /\ m \notin TransDeps(plugins, op.arg)
        /\ Get(plugins, m).initialized

\* C14 as stated: the instance register_plugin stores carries the priority and
\* the dependencies its class declares.
C14_DeclaredPriorityAndDependenciesStored ==
    op.name = "register_plugin" =>
        /\ Get(plugins, op.arg).priority = op.cls.priority
        /\ Get(plugins, op.arg).dependencies = op.cls.dependencies

\* C15 as stated: when discover_plugins returns, the registry keys, and the
\* names of the stored plugins, are the names of the subdirectories that hold a
\* plugin class.
C15_KeyIsDirectoryName ==
    (op.name = "discover_plugins" /\ raised = NoError) =>
        /\ Keys(plugins) =
               {listed[i].dirname :
                   i \in {k \in DOMAIN listed : listed[k].kind = "plugin"}}
        /\ \A i \in DOMAIN plugins : plugins[i].name \in Range(DirPool)

\* C16 as stated: discover_plugins returns normally having examined every
\* subdirectory, whatever is wrong with single subdirectories (no __init__.py,
\* a module whose import raises), and registers the valid plugins among them.
C16_DiscoveryProblemsSkipped ==
    op.name = "discover_plugins" =>
        /\ raised = NoError
        /\ checked = [i \in DOMAIN listed |-> listed[i].dirname]
        /\ Keys(plugins) =
               {ModuleName(listed[i].dirname) :
                   i \in {k \in DOMAIN listed : listed[k].kind = "plugin"}}

C18_ReRegistrationReplaces ==
    [][\A n \in Keys(plugins) :
          (op'.name = "register_plugin" /\ op'.arg = n) =>
              /\ raised' = NoError
              /\ Len(plugins') = Len(plugins)
              /\ Cardinality({i \in DOMAIN plugins' : plugins'[i].name = n}) = 1
              /\ ~Get(plugins', n).initialized
              /\ \A i \in DOMAIN plugins :
                     plugins[i].name # n => plugins'[i] = plugins[i]]_vars

\* C18 witness: a plugin was registered again after it had been initialized:
\* its entry is uninitialized while the other two entries still are
\* initialized.
C18_Witness ==
    /\ op.name = "register_plugin"
    /\ Len(plugins) = 3
    /\ ~Get(plugins, op.arg).initialized
    /\ \A i \in DOMAIN plugins :
           plugins[i].name # op.arg => plugins[i].initialized

\* C19 as stated: after any sequence of configure_main_logger and
\* get_plugin_logger calls no logger carries two handlers that write to the
\* same file or stream, and a message logged on any logger reaches no file or
\* stream twice.
C19_NoDuplicateHandlers ==
    \A n \in LoggerNames :
        /\ \A i, j \in DOMAIN loggers[n].handlers :
               loggers[n].handlers[i].dest = loggers[n].handlers[j].dest => i = j
        /\ \A i, j \in DOMAIN Emit(loggers, n) :
               Emit(loggers, n)[i] = Emit(loggers, n)[j] => i = j

\* C20 as stated: human_readable_to_bytes either returns or raises ValueError;
\* no exception of another type escapes.
C20_OnlyValueError ==
    stage = "returned" => raised.type \in {"none", "ValueError"}

-----------------------------------------------------------------------------
\* C21: initialization is dependency-first.  A registry with no entry
\* initialized is dependency-first, and every call of load_plugin or
\* load_all_plugins on a dependency-first registry leaves it dependency-first:
\* whether it returns or raises, each plugin with initialized = True has all
\* its declared dependencies registered and initialized.
C21_DependencyFirstPreserved ==
    [][(Loading(op'.name) /\ DependencyFirst(plugins)) => DependencyFirst(plugins')]_vars

\* C21 witness: load_plugin returned on a registry where an initialized plugin
\* has an initialized dependency while another plugin is still uninitialized.
C21_Witness ==
    /\ op.name = "load_plugin"
    /\ raised = NoError
    /\ DependencyFirst(plugins)
    /\ \E i \in DOMAIN plugins :
           /\ plugins[i].initialized
           /\ plugins[i].dependencies # <<>>
           /\ plugins[i].name \notin Range(plugins[i].dependencies)
    /\ \E i \in DOMAIN plugins : ~plugins[i].initialized

-----------------------------------------------------------------------------
\* C22: when no registered plugin declares a dependency, execute_plugins
\* invokes execute() in the registry order stably sorted by priority: the
\* k-th plugin invoked is the one that exactly k - 1 plugins precede, a plugin
\* preceding another when its priority is lower, or equal and it was
\* registered earlier; a call that returns has invoked every plugin.
C22_StableSortOrder ==
    (op.name = "execute_plugins" /\ \A i \in DOMAIN plugins : plugins[i].dependencies = <<>>)
        => /\ \A k \in DOMAIN calls :
                  LET i == Index(plugins, calls[k]) IN
                  Cardinality({j \in DOMAIN plugins :
                      \/ plugins[j].priority < plugins[i].priority
                      \/ plugins[j].priority = plugins[i].priority /\ j < i}) = k - 1
           /\ raised = NoError => Len(calls) = Len(plugins)

\* C22 witness: three plugins without dependencies executed; the first two
\* registered share a priority and ran in registration order, after the third,
\* whose priority is lower.
C22_Witness ==
    /\ op.name = "execute_plugins"
    /\ raised = NoError
    /\ Len(plugins) = 3
    /\ \A i \in DOMAIN plugins : plugins[i].dependencies = <<>>
    /\ plugins[1].priority = plugins[2].priority
    /\ plugins[3].priority < plugins[1].priority
    /\ calls = <<plugins[3].name, plugins[1].name, plugins[2].name>>

-----------------------------------------------------------------------------
\* C23 as stated: load_plugin on a plugin that is already initialized changes
\* no initialized flag and no registry entry, and load_all_plugins called again
\* after it returned changes nothing.
C23_LoadInitializedChangesNothing ==
    [][/\ (/\ op'.name = "load_plugin"
           /\ op'.arg \in Keys(plugins)
           /\ Get(plugins, op'.arg).initialized) => plugins' = plugins
       /\ (/\ op.name = "load_all_plugins"
           /\ raised = NoError
           /\ op'.name = "load_all_plugins") => plugins' = plugins]_vars

\* C23: load_plugin on a plugin that is already initialized and whose declared
\* dependencies are all registered and initialized returns and changes no
\* initialized flag and no registry entry; load_all_plugins called again right
\* after it returned returns and changes nothing.
C23_LoadIsIdempotent ==
    [][/\ (/\ op'.name = "load_plugin"
           /\ op'.arg \in Keys(plugins)
           /\ Get(plugins, op'.arg).initialized
           /\ \A d \in DirectDeps(plugins, op'.arg) :
                  d \in Keys(plugins) /\ Get(plugins, d).initialized)
              => plugins' = plugins /\ raised' = NoError
       /\ (/\ op.name = "load_all_plugins"
           /\ raised = NoError
           /\ op'.name = "load_all_plugins")
              => plugins' = plugins /\ raised' = NoError]_vars

\* C23 witness: load_all_plugins returned for the second time in a row on a
\* registry with a plugin that declares a dependency.
C23_Witness ==
    /\ op.name = "load_all_plugins"
    /\ op.repeated
    /\ raised = NoError
    /\ AllInitialized(plugins)
    /\ \E i \in DOMAIN plugins : plugins[i].dependencies # <<>>

-----------------------------------------------------------------------------
\* C24: the set `executed` starts empty on every call of execute_plugins.  A
\* call made right after another one on the same orchestrator, with the same
\* plugin failing or none, invokes the same execute() methods in the same
\* order and ends the same way; when it returns, it has invoked every
\* registered plugin's execute() once more.
C24_ExecutedSetIsPerCall ==
    [][(op.name = "execute_plugins" /\ op'.name = "execute_plugins")
          => /\ op'.arg = op.arg
                    => calls' = calls /\ executed' = executed /\ raised' = raised
             /\ raised' = NoError
                    => /\ Len(calls') = Len(plugins)
                       /\ Range(calls') = Keys(plugins)]_vars

\* C24 witness: a second execute_plugins call in a row returned, having invoked
\* every plugin of a registry with a declared dependency.
C24_Witness ==
    /\ op.name = "execute_plugins"
    /\ op.repeated
    /\ raised = NoError
    /\ Len(plugins) >= 2
    /\ Len(calls) = Len(plugins)
    /\ executed = Keys(plugins)
    /\ \E i \in DOMAIN plugins : plugins[i].dependencies # <<>>

-----------------------------------------------------------------------------
\* The positions in the dependency list of the plugin reached at reached[k]
\* whose names were not in `executed` at that moment.
Pending(k) ==
    LET deps == Get(plugins, reached[k].name).dependencies IN
    {i \in DOMAIN deps : deps[i] \notin reached[k].executed}

\* The plugin reached at reached[k] had its execute() invoked by the call.
Invoked(k) == reached[k].name \in Range(calls)

\* C25 as stated: when execute_with_dependencies reaches a plugin that is not
\* executed, the dependencies that have not executed before that moment execute
\* in the order they are listed, all of them before the plugin itself, and the
\* plugin's name enters `executed` only after its execute() returned.
C25_PendingDependenciesInListedOrder ==
    Executing =>
        /\ \A k \in DOMAIN reached :
               Invoked(k) =>
                   LET deps == Get(plugins, reached[k].name).dependencies IN
                   /\ \A i, j \in Pending(k) :
                          (i < j /\ deps[i] # deps[j]) => CalledBefore(deps[i], deps[j])
                   /\ \A i \in Pending(k) : CalledBefore(deps[i], reached[k].name)
        /\ raised.type = "PluginFailure" => raised.message \notin executed

\* C25: when execute_with_dependencies reaches a plugin that is not executed,
\* it walks the plugin's dependencies in declaration order: a dependency that
\* has not executed before that moment executes before every later-listed one
\* that has not either, unless the later-listed one is also, directly or
\* transitively, a dependency of it or of a dependency listed before it (that
\* one executes during the earlier dependency's walk); all of them execute
\* before the plugin itself, and the plugin's name enters `executed` only after
\* its execute() returned.
C25_DeclarationOrderWalk ==
    Executing =>
        /\ \A k \in DOMAIN reached :
               Invoked(k) =>
                   LET deps == Get(plugins, reached[k].name).dependencies IN
                   /\ \A i, j \in Pending(k) :
                          (/\ i < j
                           /\ \A m \in 1..i :
                                  /\ deps[j] # deps[m]
                                  /\ deps[j] \notin TransDeps(plugins, deps[m]))
                              => CalledBefore(deps[i], deps[j])
                   /\ \A i \in Pending(k) : CalledBefore(deps[i], reached[k].name)
        /\ raised.type = "PluginFailure" => raised.message \notin executed

\* C25 witness: a plugin was reached with two listed dependencies not executed,
\* the first listed registered after the second and of no lower priority, and
\* they executed in listed order before the plugin.
C25_Witness ==
    /\ op.name = "execute_plugins"
    /\ raised = NoError
    /\ \E k \in DOMAIN reached :
           LET deps == Get(plugins, reached[k].name).dependencies IN
           /\ Len(deps) = 2
           /\ Pending(k) = {1, 2}
           /\ Index(plugins, deps[1]) > Index(plugins, deps[2])
           /\ Get(plugins, deps[1]).priority >= Get(plugins, deps[2]).priority
           /\ CalledBefore(deps[1], deps[2])
           /\ CalledBefore(deps[2], reached[k].name)

-----------------------------------------------------------------------------
\* The text of one component: its value and the unit name, plural unless the
\* value is 1; nothing when the value is 0.
Component(value, unit) ==
    IF value = 0
    THEN <<>>
    ELSE IF value = 1
    THEN <<"1 " \o unit>>
    ELSE <<ToString(value) \o " " \o unit \o "s">>

\* C26: for a non-negative integer n, seconds_to_human_readable(n) lists
\* days, hours, minutes and seconds in that order, separated by ', ', with the
\* values d, h, m, s for which d*86400 + h*3600 + m*60 + s = n, h < 24, m < 60
\* and s < 60; a component of value 0 is omitted, a value of 1 has the singular
\* unit name and a larger one the plural; 3661 gives
\* '1 hour, 1 minute, 1 second' and 86400 gives '1 day'.
C26_SecondsComponents ==
    (op.name = "seconds_to_human_readable" /\ stage = "returned")
        => LET n == op.arg
               d == n \div 86400
               h == (n % 86400) \div 3600
               m == (n % 3600) \div 60
               sec == n % 60
           IN /\ d * 86400 + h * 3600 + m * 60 + sec = n
              /\ result = Join(", ", Component(d, "day") \o Component(h, "hour")
                                      \o Component(m, "minute") \o Component(sec, "second"))
              /\ n = 3661 => result = "1 hour, 1 minute, 1 second"
              /\ n = 86400 => result = "1 day"

\* C26 witness: seconds_to_human_readable(3661) returned its three components.
C26_Witness ==
    /\ op = Call("seconds_to_human_readable", 3661)
    /\ stage = "returned"
    /\ result = "1 hour, 1 minute, 1 second"

-----------------------------------------------------------------------------
\* C27: for a non-negative integer x and a byte order o, int_to_bytes(x,
\* byteorder=o) returns the fewest bytes that hold x, (bit_length(x) + 7) // 8
\* of them (none for 0; 258 gives the bytes 01 02 in big-endian order), and
\* bytes_to_int of those bytes with the same byte order o returns x.
C27_IntBytesRoundTrip ==
    [][/\ (op'.name = "int_to_bytes" /\ stage' = "returned")
              => /\ raised' = NoError
                 /\ Fits(op'.arg.x, Len(result'))
                 /\ Len(result') > 0 => ~Fits(op'.arg.x, Len(result') - 1)
                 /\ \A i \in DOMAIN result' : result'[i] \in 0..255
                 /\ (op'.arg.x = 258 /\ op'.arg.byteorder = "big") => result' = <<1, 2>>
       /\ (op.name = "int_to_bytes" /\ op'.name = "bytes_to_int"
               /\ op'.arg.byteorder = op.arg.byteorder)
              => result' = op.arg.x]_vars

\* C27 witness: bytes_to_int returned 258 for the little-endian bytes 02 01
\* that int_to_bytes(258, byteorder='little') had returned.
C27_Witness ==
    /\ op = Call("bytes_to_int", [byte_string |-> <<2, 1>>, byteorder |-> "little"])
    /\ result = 258

-----------------------------------------------------------------------------
\* The walk of load_plugin(name) stopped at a missing dependency name: the
\* plugin is left uninitialized, every dependency listed before the one at
\* which its loop stopped is registered and initialized, and that one is
\* either not registered or a plugin whose own walk stopped the same way.
RECURSIVE StoppedAtMissing(_, _, _)
StoppedAtMissing(P, name, fuel) ==
    /\ name \in Keys(P)
    /\ ~Get(P, name).initialized
    /\ LET deps == Get(P, name).dependencies IN
       \E k \in DOMAIN deps :
           /\ \A j \in 1..(k - 1) : deps[j] \in Keys(P) /\ Get(P, deps[j]).initialized
           /\ \/ deps[k] \notin Keys(P)
              \/ fuel > 0 /\ StoppedAtMissing(P, deps[k], fuel - 1)

\* C28: a failed resolution is not rolled back.  When load_plugin(A), called
\* on a registry with no plugin initialized, fails because a dependency name
\* is missing, A and every plugin on the resolution path down to the missing
\* name keep initialized = False, the dependencies listed before the point of
\* failure at each plugin of the path are initialized, and every initialized
\* plugin has all its own dependencies registered and initialized.
C28_FailedLoadNotRolledBack ==
    (/\ op.name = "load_plugin"
     /\ op.arg \in Keys(plugins)
     /\ raised.type \in {"TypeError", "DependencyError"})
        => /\ StoppedAtMissing(plugins, op.arg, Len(plugins))
           /\ DependencyFirst(plugins)

\* C28 witness: load_plugin(A) failed at a missing name listed second, after
\* the dependency listed first and that dependency's own dependency were
\* initialized; they stay initialized and A does not.
C28_Witness ==
    /\ op.name = "load_plugin"
    /\ raised.type = "TypeError"
    /\ op.arg \in Keys(plugins)
    /\ LET deps == Get(plugins, op.arg).dependencies IN
       /\ Len(deps) = 2
       /\ deps[2] \notin Keys(plugins)
       /\ deps[1] \in Keys(plugins) \ {op.arg}
       /\ Get(plugins, deps[1]).initialized
       /\ Len(Get(plugins, deps[1]).dependencies) = 1
       /\ \A d \in DirectDeps(plugins, deps[1]) :
              d \in Keys(plugins) \ {op.arg, deps[1]} /\ Get(plugins, d).initialized
    /\ ~Get(plugins, op.arg).initialized

-----------------------------------------------------------------------------
\* The registry keys and each plugin's name, priority and dependencies are
\* the same in P and Q.
SameButFlags(P, Q) ==
    /\ Len(P) = Len(Q)
    /\ \A i \in DOMAIN P :
           /\ P[i].name = Q[i].name
           /\ P[i].priority = Q[i].priority
           /\ P[i].dependencies = Q[i].dependencies

\* C29: frame of the two passes.  load_plugin and load_all_plugins change
\* nothing of the registry except initialized flags: the keys, their order and
\* every plugin's name, priority and dependencies stay as they were.
\* execute_plugins changes neither the registry nor any plugin's initialized,
\* priority or dependencies.
C29_PassesFrame ==
    [][/\ Loading(op'.name) => SameButFlags(plugins, plugins')
       /\ op'.name = "execute_plugins" => plugins' = plugins]_vars

\* C29 witness: load_plugin returned having initialized a plugin of priority
\* 5 and its dependency, next to a plugin it left alone.
C29_Witness ==
    /\ op.name = "load_plugin"
    /\ raised = NoError
    /\ Len(plugins) = 3
    /\ Get(plugins, op.arg).initialized
    /\ Get(plugins, op.arg).priority = 5
    /\ Get(plugins, op.arg).dependencies # <<>>
    /\ op.arg \notin DirectDeps(plugins, op.arg)
    /\ \E i \in DOMAIN plugins : ~plugins[i].initialized

-----------------------------------------------------------------------------
\* load_plugin(name) was called on a plugin that lists itself first.
LoadedSelfDependent ==
    /\ op.name = "load_plugin"
    /\ op.arg \in Keys(plugins)
    /\ Get(plugins, op.arg).dependencies # <<>>
    /\ Get(plugins, op.arg).dependencies[1] = op.arg

\* No load, execute or run call on a registry whose dependency graph is
\* acyclic and whose dependency names are all registered runs into the
\* recursion limit; run() with every execute() returning starts the server
\* after every plugin executed.
AcyclicClosedTerminates ==
    (Acyclic(plugins) /\ Closed(plugins))
        => /\ (Loading(op.name) \/ Executing) => raised.type # "RecursionError"
           /\ (op.name = "run" /\ op.arg = NoName)
                  => raised = NoError /\ server /\ executed = Keys(plugins)

\* C30 as stated: on a finite registry with an acyclic dependency graph and
\* all dependency names registered, load_all_plugins followed by
\* execute_plugins terminates; load_plugin on a plugin that lists itself
\* recurses without terminating, so no such call ever ends.
C30_SelfDependencyNeverEnds ==
    /\ AcyclicClosedTerminates
    /\ ~LoadedSelfDependent

\* C30: on a finite registry with an acyclic dependency graph and all
\* dependency names registered, load_all_plugins followed by execute_plugins
\* terminates; load_plugin on a plugin that lists itself never returns
\* normally and leaves the plugin uninitialized: when the plugin lists itself
\* first, the call recurses until the interpreter's recursion limit and ends
\* with RecursionError.
C30_SelfDependencyRecursionError ==
    /\ AcyclicClosedTerminates
    /\ (/\ op.name = "load_plugin"
        /\ op.arg \in DirectDeps(plugins, op.arg))
           => /\ raised.type \in {"RecursionError", "TypeError"}
              /\ ~Get(plugins, op.arg).initialized
    /\ LoadedSelfDependent => raised = RecursionError

\* C30 witness: load_plugin ended with RecursionError on a plugin that lists
\* itself, on a registry with another plugin.
C30_Witness ==
    /\ LoadedSelfDependent
    /\ raised = RecursionError
    /\ Len(plugins) >= 2

=============================================================================
